---- MODULE Spec2Model ----
(***************************************************************************)
(* Model of open-api-to-http: the path name resolver (Names::new), the     *)
(* schema type resolver (Schema::get_all_types), the security resolver     *)
(* (get_auth_schema) with the operation descriptor builder                 *)
(* (HttpData::new / HttpData::get_formatted), and the file aggregator      *)
(* (Application::run) with the file system helpers of utils.rs.            *)
(*                                                                         *)
(* A Rust String is a sequence of tokens.  The text of an endpoint path is *)
(* one token per character; a string literal of the program is one token,  *)
(* and every line break is a token of its own.  An Option is a sequence of  *)
(* at most one element.  Where the program iterates a HashMap or a HashSet, *)
(* or takes the first key of one, the model takes every order.             *)
(***************************************************************************)
EXTENDS Integers, Sequences, FiniteSets, TLC

VARIABLES
    value, names,                              \* Names::new: argument, result
    node, known_types,                         \* Schema::get_all_types: self, result
    endpoint_info, method, comps,              \* HttpData::new: arguments (with names)
    auth, data, warnings, formatted,           \* HttpData::new: resolved scheme, result, stderr;
                                               \* HttpData::get_formatted: result
    file, pc, schema, paths, endpoints_map, folder_map, todo, dirs, files, calls
                                               \* Application::run and the file system

namesVars == <<value, names>>
typesVars == <<node, known_types>>
httpVars  == <<endpoint_info, method, comps, auth, data, warnings, formatted>>
runVars   == <<file, pc, schema, paths, endpoints_map, folder_map, todo, dirs, files, calls>>
vars      == <<namesVars, typesVars, httpVars, runVars>>

(***************************************************************************)
(* Bounds                                                                  *)
(***************************************************************************)
\* an endpoint path has at most MaxSegments segments between its slashes
MaxSegments == 4

\* Option<T>: None is the empty sequence, Some(x) the one-element sequence
None == <<>>

Some(x) == <<x>>

Unwrap(o) == o[1]

\* the segments endpoint paths are made of: empty, plain, `{a}`, and the
\* near misses of a path parameter `{a`, `a}`, `{}b`
Segments ==
    { <<>>, <<"a">>, <<"b">>, <<"{", "a", "}">>, <<"{", "a">>, <<"a", "}">>, <<"{", "}", "b">> }

(***************************************************************************)
(* String helpers (std::str)                                               *)
(***************************************************************************)
\* str::starts_with(pat) for a one-character pattern
starts_with(s, c) == Len(s) > 0 /\ s[1] = c

\* str::contains(pat) for a one-character pattern
contains(s, c) == \E i \in 1..Len(s) : s[i] = c

\* position of the first occurrence of c in s, 0 when there is none
FirstIndex(s, c) ==
    IF contains(s, c) THEN CHOOSE i \in 1..Len(s) : s[i] = c /\ \A j \in 1..(i - 1) : s[j] # c
    ELSE 0

\* str::split(c).collect(): never empty, "" splits to [""]
RECURSIVE split(_, _)
split(s, c) ==
    LET i == FirstIndex(s, c) IN
    IF i = 0 THEN <<s>>
    ELSE <<SubSeq(s, 1, i - 1)>> \o split(SubSeq(s, i + 1, Len(s)), c)

\* [String]::join(sep)
RECURSIVE join(_, _)
join(v, sep) ==
    IF Len(v) = 0 THEN <<>>
    ELSE IF Len(v) = 1 THEN v[1]
    ELSE v[1] \o sep \o join(Tail(v), sep)

(***************************************************************************)
(* http_data.rs: Path Name Resolver                                        *)
(***************************************************************************)
is_query_param(subs) == starts_with(subs, "{") /\ contains(subs, "}")

\* fold_folders with the accumulated prefix forgotten: every folder is pushed
\* as the bare segment
RECURSIVE fold_folders_NoPrefix(_, _)
fold_folders_NoPrefix(acc, rest) ==
    IF Len(rest) = 0 THEN acc
    ELSE fold_folders_NoPrefix(Append(acc, rest[1]), Tail(rest))

\* the fold of Names::new over the segments left after the pop
RECURSIVE fold_folders(_, _)
fold_folders(acc, rest) ==
    IF Len(rest) = 0 THEN acc
    ELSE IF Len(acc) = 0 THEN fold_folders(Append(acc, rest[1]), Tail(rest))
    ELSE fold_folders(Append(acc, acc[Len(acc)] \o <<"/">> \o rest[1]), Tail(rest))

\* Names::new with file_path formatted after the pop instead of before it
Names_new_JoinAfterPop(v) ==
    LET splits0 == split(v, "/")
        keep(s) == Len(s) > 0 /\ ~is_query_param(s)
        splits  == SelectSeq(splits0, keep)   \* splits.retain(..)
    IN  IF Len(splits0) = 0 THEN [outcome |-> "panic", message |-> "Invalid endpoint name"]
        ELSE IF Len(splits) = 0 THEN [outcome |-> "panic", message |-> "unwrap on None"]
        ELSE [outcome   |-> "ok",
              file_name |-> splits[Len(splits)],
              folders   |-> fold_folders(<<>>, SubSeq(splits, 1, Len(splits) - 1)),
              file_path |-> <<"/">> \o join(SubSeq(splits, 1, Len(splits) - 1), <<"/">>),
              http_path |-> v]

\* Names::new; splits.pop().unwrap() panics when nothing is left after retain
Names_new(v) ==
    LET splits0 == split(v, "/")
        keep(s) == Len(s) > 0 /\ ~is_query_param(s)
        splits  == SelectSeq(splits0, keep)   \* splits.retain(..)
    IN  IF Len(splits0) = 0 THEN [outcome |-> "panic", message |-> "Invalid endpoint name"]
        ELSE IF Len(splits) = 0 THEN [outcome |-> "panic", message |-> "unwrap on None"]
        ELSE [outcome   |-> "ok",
              file_name |-> splits[Len(splits)],
              folders   |-> fold_folders(<<>>, SubSeq(splits, 1, Len(splits) - 1)),
              file_path |-> <<"/">> \o join(splits, <<"/">>),
              http_path |-> v]

\* the endpoint paths Names::new is applied to
PathValues ==
    { join(v, <<"/">>) : v \in UNION { [1..n -> Segments] : n \in 1..MaxSegments } }

NamesIdle == value = <<>> /\ names = None
TypesIdle == node = [kind |-> "none"] /\ known_types = None
HttpIdle  ==
    /\ endpoint_info = None /\ method = "get" /\ comps = None
    /\ auth = None /\ data = None /\ warnings = <<>> /\ formatted = None
RunIdle   ==
    /\ file = [kind |-> "none"] /\ pc = "idle" /\ schema = None /\ paths = {} /\ endpoints_map = <<>> /\ folder_map = {}
    /\ todo = {} /\ dirs = {} /\ files = <<>> /\ calls = <<>>

InitNames ==
    /\ value \in PathValues
    /\ names = None
    /\ TypesIdle /\ HttpIdle /\ RunIdle

\* let names = Names::new(&path_name)
NamesNew ==
    /\ names = None
    /\ names' = Some(Names_new(value))
    /\ UNCHANGED <<value, typesVars, httpVars, runVars>>

NextNames == NamesNew

SpecNames == InitNames /\ [][NextNames]_vars

(***************************************************************************)
(* Claims on the Path Name Resolver                                        *)
(***************************************************************************)
\* the segments of a path that are neither empty nor a path parameter
UsableSegments(v) == SelectSeq(split(v, "/"), LAMBDA s : s # <<>> /\ ~is_query_param(s))

Resolved == names # None /\ names[1].outcome = "ok"

\* C3: resolving a path with zero non-parameter segments ends in a reported
\* PathResolution error and never in a panic.
C3_ZeroSegmentsIsPathResolutionError ==
    (names # None /\ starts_with(value, "/") /\ UsableSegments(value) = <<>>) =>
        names[1].outcome = "PathResolution"

Last(s) == s[Len(s)]

\* C4 as stated: file_path is the last folder, `/`, file_name; or file_name alone
\* when there are no folders.
C4_FilePathJoinsFoldersAndName ==
    Resolved =>
        names[1].file_path =
            IF names[1].folders = <<>> THEN names[1].file_name
            ELSE Last(names[1].folders) \o <<"/">> \o names[1].file_name

\* C4 (amended): file_path is `/` followed by the join of the folders chain with
\* file_name: `/`, the last folder, `/`, file_name; or `/`, file_name when there
\* are no folders.
C4_FilePathIsSlashFoldersAndName ==
    Resolved =>
        names[1].file_path =
            <<"/">> \o (IF names[1].folders = <<>> THEN names[1].file_name
                        ELSE Last(names[1].folders) \o <<"/">> \o names[1].file_name)

C4_Witness == Resolved /\ Len(names[1].folders) >= 2 /\ Len(value) # Len(names[1].file_path)

\* C5: folders is a strictly increasing prefix chain over all usable segments
\* but the last, starting with a single segment, each element the previous one
\* plus `/` plus one further segment, and no element contains a path-parameter
\* segment.
C5_FoldersIsPrefixChain ==
    Resolved =>
        LET segs == UsableSegments(value)
            f    == names[1].folders
        IN  /\ Len(f) = Len(segs) - 1
            /\ Len(f) > 0 => f[1] = segs[1]
            /\ \A i \in 1..(Len(f) - 1) :
                   /\ f[i + 1] = f[i] \o <<"/">> \o segs[i + 1]
                   /\ Len(f[i]) < Len(f[i + 1])
            /\ \A i \in 1..Len(f) :
                   /\ Len(split(f[i], "/")) = i
                   /\ \A k \in 1..i : ~is_query_param(split(f[i], "/")[k])

C5_Witness ==
    /\ Resolved /\ Len(names[1].folders) >= 2
    /\ \E k \in 1..Len(split(value, "/")) : is_query_param(split(value, "/")[k])

(***************************************************************************)
(* open_api.rs: SchemaType Resolver                                        *)
(***************************************************************************)
\* a composition list (allOf, anyOf, oneOf, not) has at most MaxMembers members
MaxMembers == 2

\* enum PrimitiveType, named as its Debug format prints it
PrimitiveType == {"String", "Number", "Integer", "Boolean", "Array", "Object"}

\* the types given to nested properties
NestedTypes == {"Boolean", "Array"}

\* Schema::Object(obj)
SchemaObject(obj) == [kind |-> "Object", obj |-> obj]

\* Schema::AllOf { allOf }, AnyOf { anyOf }, OneOf { oneOf }, Not { not }
SchemaComposition(kind, members) == [kind |-> kind, members |-> members]

CompositionKinds == {"AllOf", "AnyOf", "OneOf", "Not"}

\* struct Object without properties
LeafObjects == [type : PrimitiveType, properties : {None}, required : {None}]

\* struct Object: a declared type, optional properties (a map from the property
\* name to its Schema) and an optional list of required property names
Objects ==
    LeafObjects \cup
    { [type |-> t, properties |-> Some("p" :> SchemaObject([type |-> u, properties |-> None, required |-> None])),
       required |-> r] : t \in PrimitiveType, u \in NestedTypes, r \in {None, Some(<<"p">>)} }

\* enum Schema
Schemas ==
    { SchemaObject(o) : o \in Objects } \cup
    { SchemaComposition(k, m) :
        k \in CompositionKinds, m \in UNION { [1..n -> Objects] : n \in 0..MaxMembers } }

\* the declared types of the properties of an Object
PropertyTypes(obj) ==
    IF obj.properties = None THEN {}
    ELSE { Unwrap(obj.properties)[k].obj.type : k \in DOMAIN Unwrap(obj.properties) }

\* get_all_types that also collects the types of the nested properties
get_all_types_WithProperties(self) ==
    IF self.kind = "Object" THEN {self.obj.type} \cup PropertyTypes(self.obj)
    ELSE UNION { {self.members[i].type} \cup PropertyTypes(self.members[i]) :
                 i \in 1..Len(self.members) }

\* Schema::get_all_types
get_all_types(self) ==
    IF self.kind = "Object" THEN {self.obj.type}
    ELSE { self.members[i].type : i \in 1..Len(self.members) }

InitTypes ==
    /\ node \in Schemas
    /\ known_types = None
    /\ NamesIdle /\ HttpIdle /\ RunIdle

\* value.get_all_types()
GetAllTypes ==
    /\ known_types = None
    /\ known_types' = Some(get_all_types(node))
    /\ UNCHANGED <<node, namesVars, httpVars, runVars>>

NextTypes == GetAllTypes

SpecTypes == InitTypes /\ [][NextTypes]_vars

(***************************************************************************)
(* Claims on the SchemaType Resolver                                       *)
(***************************************************************************)
\* C6: resolving any schema node, a composition over an empty member list
\* included, yields a non-empty set of primitive types.
C6_ResolvedTypesNonEmpty ==
    known_types # None =>
        (Unwrap(known_types) # {} /\ Unwrap(known_types) \subseteq PrimitiveType)

\* the immediate member objects of a schema node
ImmediateObjects(n) ==
    IF n.kind = "Object" THEN {n.obj} ELSE { n.members[i] : i \in 1..Len(n.members) }

\* C7: the resolved set is exactly the declared types of the immediate
\* members: the singleton of the declared type for an Object, the union of the
\* members' declared types for a composition; nested properties add nothing.
C7_ExactlyImmediateTypes ==
    known_types # None =>
        /\ \A o \in ImmediateObjects(node) : o.type \in Unwrap(known_types)
        /\ \A t \in Unwrap(known_types) : \E o \in ImmediateObjects(node) : o.type = t
        /\ node.kind = "Object" => Unwrap(known_types) = {node.obj.type}
        /\ Cardinality(Unwrap(known_types)) <= Cardinality(ImmediateObjects(node))

\* oneOf[string, integer], a member carrying a nested property, gives {String, Integer}
C7_Witness ==
    /\ node.kind = "OneOf" /\ Len(node.members) = 2
    /\ node.members[1].type = "String" /\ node.members[2].type = "Integer"
    /\ node.members[1].properties # None
    /\ known_types = Some({"String", "Integer"})

(***************************************************************************)
(* open_api.rs: the parts of the document an operation is built from       *)
(***************************************************************************)
\* a security requirement list has at most MaxRequirements requirements
MaxRequirements == 2

\* a security requirement names at most MaxKeys schemes
MaxKeys == 2

\* enum open_api::HttpMethod
OpenApiHttpMethod == {"get", "post", "put", "delete", "patch"}

\* SecuritySchema::BearerToken(SecuritySchemaBearerToken)
BearerToken == [kind |-> "BearerToken", type |-> "http"]

\* SecuritySchema::ApiKey(SecuritySchemaApiKey); `in` is a SecurityTokenLocation
ApiKey(name, in) == [kind |-> "ApiKey", type |-> "apiKey", name |-> name, in |-> in]

\* SecuritySchema::Unknown(Value)
Unknown == [kind |-> "Unknown"]

\* the schemes a document may declare under components.securitySchemes
DeclarableSchemes ==
    ( "bearerAuth" :> BearerToken @@
      "apiKeyAuth" :> ApiKey(<<"X-Key">>, "Header") @@
      "oauth"      :> Unknown )

\* the scheme names an operation may reference; "missing" is never declared
SchemeNames == DOMAIN DeclarableSchemes \cup {"missing"}

\* Components::security_schemes: HashMap<String, SecuritySchema>
SchemeTables == { [n \in d |-> DeclarableSchemes[n]] : d \in SUBSET DOMAIN DeclarableSchemes }

\* Option<Components>
ComponentsValues ==
    {None, Some([security_schemes |-> None])} \cup
    { Some([security_schemes |-> Some(t)]) : t \in SchemeTables }

\* a security requirement, HashMap<String, Vec<String>>, as the set of its keys
\* (the scope lists are never read)
Requirements == { r \in SUBSET SchemeNames : Cardinality(r) <= MaxKeys }

\* Operation::security
SecurityValues ==
    {None} \cup
    { Some(l) : l \in UNION { [1..n -> Requirements] : n \in 0..MaxRequirements } }

(***************************************************************************)
(* http_data.rs: Security Resolver                                         *)
(***************************************************************************)
WarnMissing(name) == <<"[warn] ", name, " is missing in the security_schema defition">>

WarnNotFound == <<"[warn] Matching security schema was not found">>

\* get_auth_schema that goes on to the next requirement when the name is not
\* declared, instead of returning None
RECURSIVE get_auth_schema_SkipMissing(_, _)
get_auth_schema_SkipMissing(auth_options, security_schema) ==
    IF auth_options = <<>> THEN { [schema |-> None, warnings |-> <<WarnNotFound>>] }
    ELSE LET auth_option == Head(auth_options) IN
         IF auth_option = {} THEN get_auth_schema_SkipMissing(Tail(auth_options), security_schema)
         ELSE UNION { IF name \in DOMAIN security_schema
                      THEN { [schema |-> Some(security_schema[name]), warnings |-> <<>>] }
                      ELSE { [schema   |-> o.schema,
                              warnings |-> <<WarnMissing(name)>> \o o.warnings] :
                             o \in get_auth_schema_SkipMissing(Tail(auth_options),
                                                               security_schema) }
                      : name \in auth_option }

\* get_auth_schema: the outcomes the call can have, each the returned
\* Option<SecuritySchema> with the lines printed to stderr.  auth.keys().next()
\* is any key of the requirement (HashMap order); a requirement without keys is
\* passed over and the loop goes on.
RECURSIVE get_auth_schema(_, _)
get_auth_schema(auth_options, security_schema) ==
    IF auth_options = <<>> THEN { [schema |-> None, warnings |-> <<WarnNotFound>>] }
    ELSE LET auth_option == Head(auth_options) IN
         IF auth_option = {} THEN get_auth_schema(Tail(auth_options), security_schema)
         ELSE { IF name \in DOMAIN security_schema
                THEN [schema |-> Some(security_schema[name]), warnings |-> <<>>]
                ELSE [schema |-> None, warnings |-> <<WarnMissing(name)>>]
                : name \in auth_option }

\* HttpData::new, lines 125-129: the resolver is called only when the document
\* has components with security_schemes and the operation has a security list
AuthOutcomes(info, cs) ==
    IF cs # None /\ info.security # None /\ Unwrap(cs).security_schemes # None
    THEN { [auth |-> Some(o.schema), warnings |-> o.warnings] :
           o \in get_auth_schema(Unwrap(info.security), Unwrap(Unwrap(cs).security_schemes)) }
    ELSE { [auth |-> None, warnings |-> <<>>] }

(***************************************************************************)
(* open_api.rs: parameters and request bodies                              *)
(***************************************************************************)
\* an operation declares at most MaxParameters parameters
MaxParameters == 2

\* struct Parameters (its schema is never read)
ParameterValues ==
    { [in |-> <<"path">>, name |-> <<"id">>, required |-> Some(TRUE), default |-> None],
      [in |-> <<"header">>, name |-> <<"h">>, required |-> None, default |-> None] } \cup
    { [in |-> <<"query">>, name |-> <<"q">>, required |-> r, default |-> None] :
      r \in {None, Some(FALSE), Some(TRUE)} }

\* Operation::parameters
ParametersValues ==
    {None} \cup
    { Some(l) : l \in UNION { [1..n -> ParameterValues] : n \in 0..MaxParameters } }

\* the schemas of the request bodies
BodySchemas ==
    { SchemaObject(o) : o \in { x \in Objects : x.type = "Object" } } \cup
    { SchemaComposition(k, m) : k \in {"AllOf", "OneOf"},
        m \in { <<>>, <<[type |-> "Object", properties |-> None, required |-> None]>>,
                <<[type |-> "Object",
                   properties |-> Some("p" :> SchemaObject([type |-> "Array", properties |-> None,
                                                            required |-> None])),
                   required |-> Some(<<"p">>)]>> } }

\* struct MediaType
MediaTypes == { [schema |-> x] : x \in {None} \cup { Some(b) : b \in BodySchemas } }

\* Operation::request_body; content maps the media type name to its MediaType
RequestBodyValues ==
    {None} \cup
    { Some([content |-> c]) :
        c \in { <<>>, ("text/plain" :> [schema |-> None]) } \cup
              { ("application/json" :> mt) : mt \in MediaTypes } \cup
              { ("application/json" :> mt @@ "text/plain" :> [schema |-> None]) :
                mt \in { [schema |-> None] } } }

\* struct Operation: every security list without parameters and body, and
\* every parameter list and body without security or with a bearer requirement
Operations ==
    { [parameters |-> None, request_body |-> None, security |-> sec] : sec \in SecurityValues } \cup
    { [parameters |-> ps, request_body |-> None, security |-> sec] :
        ps \in ParametersValues, sec \in {None, Some(<<{"bearerAuth"}>>)} } \cup
    { [parameters |-> None, request_body |-> rb, security |-> sec] :
        rb \in RequestBodyValues, sec \in {None, Some(<<{"apiKeyAuth"}>>)} }

(***************************************************************************)
(* http_data.rs: Operation Descriptor Builder                              *)
(***************************************************************************)
\* the orders a HashMap or HashSet over S can be iterated in
Orders(S) == { f \in [1..Cardinality(S) -> S] : \A i, j \in DOMAIN f : i # j => f[i] # f[j] }

\* impl From<open_api::HttpMethod> for HttpMethod, then to_string (Debug)
HttpMethod_from(raw_http_data) ==
    CASE raw_http_data = "get"    -> "GET"
      [] raw_http_data = "post"   -> "POST"
      [] raw_http_data = "put"    -> "PUT"
      [] raw_http_data = "patch"  -> "PATCH"
      [] raw_http_data = "delete" -> "DELETE"

\* HttpData::default
HttpData_default ==
    [method       |-> "GET",
     path         |-> <<>>,
     host         |-> <<"host: {{HTTP_HOST}}">>,
     comments     |-> [query |-> <<>>, parameters |-> <<>>, body |-> <<>>, security |-> <<>>],
     auth         |-> None,
     content_type |-> None]

\* create_comment_from_props: the comment lists the call can return (the
\* properties are iterated in HashMap order)
create_comment_from_props(props, required) ==
    IF props = None THEN { <<>> }
    ELSE { [i \in 1..Len(keys) |->
              [possible_types |-> get_all_types(Unwrap(props)[keys[i]]),
               name           |-> <<keys[i]>>,
               default        |-> Some(<<>>),
               required       |-> Some(\E k \in 1..Len(IF required = None THEN <<>> ELSE Unwrap(required)) :
                                          Unwrap(required)[k] = keys[i]),
               description    |-> None]] : keys \in Orders(DOMAIN Unwrap(props)) }

\* the comment lists appended for the member objects of a composition, in order
RECURSIVE CommentsOfMembers(_)
CommentsOfMembers(members) ==
    IF members = <<>> THEN { <<>> }
    ELSE { a \o b : a \in create_comment_from_props(Head(members).properties, Head(members).required),
                    b \in CommentsOfMembers(Tail(members)) }

\* BodyOutcomes with the content type set for a request body of any media type
BodyOutcomes_AnyMedia(info) ==
    IF info.request_body = None THEN { [content_type |-> None, body |-> <<>>] }
    ELSE IF "application/json" \notin DOMAIN Unwrap(info.request_body).content
    THEN { [content_type |-> Some(<<"Content-Type: application/json">>), body |-> <<>>] }
    ELSE LET media == Unwrap(info.request_body).content["application/json"]
             lists == IF media.schema = None THEN { <<>> }
                      ELSE IF Unwrap(media.schema).kind = "Object"
                           THEN create_comment_from_props(Unwrap(media.schema).obj.properties,
                                                          Unwrap(media.schema).obj.required)
                           ELSE CommentsOfMembers(Unwrap(media.schema).members)
         IN  { [content_type |-> Some(<<"Content-Type: application/json">>), body |-> b] : b \in lists }

\* HttpData::new, lines 178-228: the content type and the body comment lists
\* the request body can give
BodyOutcomes(info) ==
    IF info.request_body = None \/ "application/json" \notin DOMAIN Unwrap(info.request_body).content
    THEN { [content_type |-> None, body |-> <<>>] }
    ELSE LET media == Unwrap(info.request_body).content["application/json"]
             lists == IF media.schema = None THEN { <<>> }
                      ELSE IF Unwrap(media.schema).kind = "Object"
                           THEN create_comment_from_props(Unwrap(media.schema).obj.properties,
                                                          Unwrap(media.schema).obj.required)
                           ELSE CommentsOfMembers(Unwrap(media.schema).members)
         IN  { [content_type |-> Some(<<"Content-Type: application/json">>), body |-> b] : b \in lists }

\* HttpData::new, lines 158-174: the comment of a declared parameter
ParameterComment(params) ==
    [possible_types |-> {"String"},
     name           |-> params.name,
     required       |-> params.required,
     default        |-> params.default,
     description    |-> None]

\* the comments of the parameters located `in` location, in declaration order
ParameterComments(info, location) ==
    IF info.parameters = None THEN <<>>
    ELSE LET all == [i \in 1..Len(Unwrap(info.parameters)) |-> Unwrap(info.parameters)[i]]
             at(x) == x.in = location
             sel == SelectSeq(all, at)
         IN  [i \in 1..Len(sel) |-> ParameterComment(sel[i])]

\* HttpData::new, lines 136-147: the comment of an ApiKey scheme
ApiKeyComment(api_key) ==
    [possible_types |-> {"String"},
     name           |-> api_key.name,
     required       |-> Some(TRUE),
     default        |-> None,
     description    |-> Some(<<"Located in ", api_key.in>>)]

\* HttpData::new, given what get_auth_schema returned (a.auth is None when it
\* was not called) and the outcome b of reading the request body
HttpData_new(nm, info, m, a, b) ==
    LET resolved == IF a.auth # None /\ Unwrap(a.auth) # None THEN Unwrap(Unwrap(a.auth))
                    ELSE [kind |-> "none"]
    IN  [method       |-> HttpMethod_from(m),
         path         |-> nm.http_path,
         host         |-> HttpData_default.host,
         comments     |-> [query      |-> ParameterComments(info, <<"query">>),
                           parameters |-> ParameterComments(info, <<"path">>),
                           body       |-> b.body,
                           security   |-> IF resolved.kind = "ApiKey"
                                          THEN <<ApiKeyComment(resolved)>> ELSE <<>>],
         auth         |-> IF resolved.kind = "BearerToken"
                          THEN Some(<<"Authorization: Bearer {{TOKEN}}">>) ELSE None,
         content_type |-> b.content_type]

(***************************************************************************)
(* comment.rs and HttpData::get_formatted: Request Block Formatter         *)
(***************************************************************************)
NL == "\n"

\* the strings got by taking one string of each set of the list and
\* concatenating them in order
RECURSIVE ConcatChoices(_)
ConcatChoices(sets) ==
    IF sets = <<>> THEN { <<>> }
    ELSE { a \o b : a \in Head(sets), b \in ConcatChoices(Tail(sets)) }

\* Comment::get_formatted: the strings the call can return (possible_types is
\* a HashSet, iterated in any order)
Comment_get_formatted(self) ==
    LET name_with_optional_indicator ==
            IF self.required # None /\ ~Unwrap(self.required) THEN self.name \o <<"?">>
            ELSE self.name
    IN  { name_with_optional_indicator \o <<": ">> \o
          join([i \in 1..Len(types) |-> <<types[i]>>], <<",">>) :
          types \in Orders(self.possible_types) }

\* get_formatted_comment
get_formatted_comment(comments, location) ==
    { <<"# ", location, NL>> \o query \o <<"#">> :
      query \in ConcatChoices([i \in 1..Len(comments) |->
                  { <<"#  - ">> \o c \o <<NL>> : c \in Comment_get_formatted(comments[i]) }]) }

\* CommentsHolder::get_formatted: the sections of the non-empty lists query,
\* parameters and body, joined by a line break
CommentsHolder_get_formatted(self) ==
    LET sections ==
            (IF Len(self.query) > 0 THEN <<get_formatted_comment(self.query, "Query")>> ELSE <<>>) \o
            (IF Len(self.parameters) > 0
             THEN <<get_formatted_comment(self.parameters, "Parameters")>> ELSE <<>>) \o
            (IF Len(self.body) > 0 THEN <<get_formatted_comment(self.body, "Body")>> ELSE <<>>)
        separated == [i \in 1..Len(sections) |->
                        IF i = 1 THEN sections[i] ELSE { <<NL>> \o x : x \in sections[i] }]
    IN  ConcatChoices(separated)

\* HttpData::get_formatted: the strings the call can return
HttpData_get_formatted(self) ==
    { join((IF Len(comments) > 0 THEN <<comments>> ELSE <<>>) \o
           << <<self.method, " ">> \o self.path >> \o
           <<self.host>> \o
           (IF self.content_type # None THEN <<Unwrap(self.content_type)>> ELSE <<>>) \o
           (IF self.auth # None THEN <<Unwrap(self.auth)>> ELSE <<>>),
           <<NL>>) :
      comments \in CommentsHolder_get_formatted(self.comments) }

\* the lines of a rendered text
Lines(text) == split(text, NL)

(***************************************************************************)
(* Building and rendering one operation                                    *)
(***************************************************************************)
\* the endpoint paths the operations are declared under
HttpPaths == { <<"/", "a">>, <<"/", "a", "/", "{", "a", "}">> }

InitHttp ==
    /\ value \in HttpPaths
    /\ names = Some(Names_new(value))
    /\ endpoint_info \in { Some(o) : o \in Operations }
    /\ method \in OpenApiHttpMethod
    /\ comps \in ComponentsValues
    /\ auth = None /\ data = None /\ warnings = <<>> /\ formatted = None
    /\ TypesIdle /\ RunIdle

\* let http_data = HttpData::new(&names, &endpoint_info, &method, &comps)
HttpDataNew ==
    /\ data = None
    /\ \E a \in AuthOutcomes(Unwrap(endpoint_info), comps), b \in BodyOutcomes(Unwrap(endpoint_info)) :
          /\ auth' = a.auth
          /\ warnings' = warnings \o a.warnings
          /\ data' = Some(HttpData_new(Unwrap(names), Unwrap(endpoint_info), method, a, b))
    /\ UNCHANGED <<endpoint_info, method, comps, formatted, namesVars, typesVars, runVars>>

\* http_data.get_formatted()
GetFormatted ==
    /\ data # None /\ formatted = None
    /\ \E text \in HttpData_get_formatted(Unwrap(data)) : formatted' = Some(text)
    /\ UNCHANGED <<endpoint_info, method, comps, auth, data, warnings, namesVars, typesVars, runVars>>

NextHttp == HttpDataNew \/ GetFormatted

SpecHttp == InitHttp /\ [][NextHttp]_vars

(***************************************************************************)
(* Claims on the Security Resolver                                         *)
(***************************************************************************)
\* the operation's security requirement list, empty when it has none
SecurityList == IF Unwrap(endpoint_info).security = None THEN <<>>
                ELSE Unwrap(Unwrap(endpoint_info).security)

\* the scheme table of the document, empty when it declares none
DeclaredTable ==
    IF comps = None \/ Unwrap(comps).security_schemes = None THEN <<>>
    ELSE Unwrap(Unwrap(comps).security_schemes)

\* what looking a name up in the declared table gives
Lookup(name) == IF name \in DOMAIN DeclaredTable THEN Some(DeclaredTable[name]) ELSE None

\* get_auth_schema was called and has returned
ResolverReturned == data # None /\ auth # None

\* the index of the first requirement that has a key, 0 when there is none
FirstNonEmpty ==
    IF \E i \in 1..Len(SecurityList) : SecurityList[i] # {}
    THEN CHOOSE i \in 1..Len(SecurityList) :
            SecurityList[i] # {} /\ \A j \in 1..(i - 1) : SecurityList[j] = {}
    ELSE 0

\* C8 as stated: the result is decided by the first requirement alone, whatever
\* it contains: the lookup of its scheme name, and no scheme when it names none.
C8_FirstRequirementDecides ==
    (ResolverReturned /\ Len(SecurityList) > 0) =>
        /\ SecurityList[1] = {} => Unwrap(auth) = None
        /\ SecurityList[1] # {} => \E name \in SecurityList[1] : Unwrap(auth) = Lookup(name)

\* C8 (amended): the result is decided by the first requirement that has a key
\* alone: it is the lookup of one of its keys (of its only key by convention),
\* with one warning when that key is not declared; requirements without keys
\* before it are passed over, requirements after it are never consulted.
C8_FirstNonEmptyRequirementDecides ==
    ResolverReturned =>
        /\ FirstNonEmpty = 0 => Unwrap(auth) = None
        /\ FirstNonEmpty > 0 =>
              \E name \in SecurityList[FirstNonEmpty] :
                 /\ Unwrap(auth) = Lookup(name)
                 /\ warnings = IF Lookup(name) = None THEN <<WarnMissing(name)>> ELSE <<>>

\* the first of two declared requirements is returned, the second would match too
C8_Witness ==
    /\ ResolverReturned /\ Len(SecurityList) = 2
    /\ SecurityList[1] = {"apiKeyAuth"} /\ SecurityList[2] = {"bearerAuth"}
    /\ {"apiKeyAuth", "bearerAuth"} \subseteq DOMAIN DeclaredTable
    /\ Unwrap(auth) = Some(DeclarableSchemes["apiKeyAuth"])

\* the rendered block has the bearer authorization line
HasAuthLine ==
    \E i \in 1..Len(Lines(Unwrap(formatted))) :
        Lines(Unwrap(formatted))[i] = <<"Authorization: Bearer {{TOKEN}}">>

\* C9: an operation whose requirement names a scheme the document does not
\* declare gets no scheme and exactly one warning, and its block is produced
\* without an auth line.
C9_UndeclaredSchemeWarnsOnce ==
    (data # None /\ Len(SecurityList) > 0 /\ Cardinality(SecurityList[1]) = 1
       /\ SecurityList[1] \cap DOMAIN DeclaredTable = {}) =>
        /\ auth \in {None, Some(None)}
        /\ Len(warnings) = 1
        /\ Unwrap(data).auth = None
        /\ formatted # None => ~HasAuthLine

\* C10: an empty requirement list gives no scheme and no warning.
C10_EmptyRequirementListIsSilent ==
    (ResolverReturned /\ Unwrap(endpoint_info).security = Some(<<>>)) =>
        (Unwrap(auth) = None /\ warnings = <<>>)

(***************************************************************************)
(* utils.rs: the file system                                               *)
(***************************************************************************)
\* a path as the file system sees it: its non-empty components (`out//a` and
\* `out/a` are the same entry)
Components(path) == SelectSeq(split(path, "/"), LAMBDA c : c # <<>>)

Parent(path) == SubSeq(Components(path), 1, Len(Components(path)) - 1)

\* Path::new(name).exists(): a directory or a file is there
exists(fs, path) == Components(path) \in fs.dirs \/ Components(path) \in DOMAIN fs.files

\* create_folder_if_not_exists: fs::create_dir fails when the parent directory
\* is missing; the caller unwraps the error
create_folder_if_not_exists(fs, name) ==
    IF exists(fs, name) THEN fs
    ELSE IF Parent(name) \in fs.dirs
         THEN [fs EXCEPT !.dirs = @ \cup {Components(name)},
                         !.calls = Append(@, [op |-> "create_dir", path |-> name])]
         ELSE [fs EXCEPT !.panicked = TRUE,
                         !.calls = Append(@, [op |-> "create_dir", path |-> name])]

\* create_folders creating no folder at all
create_folders_Nothing(fs, folders, out) == fs

\* create_folders: creates the folders in order, stops at the first panic
RECURSIVE create_folders(_, _, _)
create_folders(fs, folders, out) ==
    IF folders = <<>> \/ fs.panicked THEN fs
    ELSE create_folders(create_folder_if_not_exists(fs, out \o <<"/">> \o Head(folders)),
                        Tail(folders), out)

\* create_file: opens with create and append and writes the data; the open
\* fails when the directory of the path is missing or the path is a directory
create_file(fs, text, path) ==
    IF Parent(path) \in fs.dirs /\ Components(path) \notin fs.dirs
    THEN [fs EXCEPT !.files = (Components(path) :>
                                 ((IF Components(path) \in DOMAIN @ THEN @[Components(path)] ELSE <<>>)
                                  \o text)) @@ @,
                    !.calls = Append(@, [op |-> "create_file", path |-> path, data |-> text])]
    ELSE [fs EXCEPT !.panicked = TRUE,
                    !.calls = Append(@, [op |-> "create_file", path |-> path, data |-> text])]

(***************************************************************************)
(* app.rs: File Aggregator                                                 *)
(***************************************************************************)
\* a document declares at most MaxEndpoints endpoint paths
MaxEndpoints == 3

\* Config::output_path
output_path == <<"out">>

\* the endpoint paths of the documents
RunPaths ==
    { <<"/", "a">>, <<"/", "a", "/", "b">>, <<"/", "a", "/", "a">>,
      <<"/", "a", "/", "{", "a", "}">>, <<"/", "a", "/", "{", "b", "}">>, <<"/", "{", "a", "}">>,
      <<"/", "a", "/", "b", "/", "a">> }

\* the operation declared under every method of the documents
RunOperation == [parameters |-> None, request_body |-> None, security |-> Some(<<{"bearerAuth"}>>)]

\* the operations of an endpoint, HashMap<HttpMethod, Operation>
RunEndpoints == { [m \in ms |-> RunOperation] : ms \in { {}, {"get"}, {"get", "post"} } }

\* OpenApi::components of the documents
RunComponents == { Some([security_schemes |-> Some("bearerAuth" :> BearerToken)]) }

\* the schema file: unreadable, not a document, or a document
SchemaFiles ==
    { [kind |-> "unreadable"], [kind |-> "malformed"] } \cup
    { [kind |-> "document", paths |-> ps, components |-> c] :
        ps \in UNION { [d -> RunEndpoints] :
                         d \in { x \in SUBSET RunPaths : Cardinality(x) <= MaxEndpoints } },
        c \in RunComponents }

\* lines 88-91 of Application::run: what rendering one operation can give, the
\* block with the lines printed to stderr; HttpData::new takes the components
\* of the document as its fourth argument
BlockOutcomes(nm, info, m, cs) ==
    { [text |-> t, warnings |-> a.warnings] :
        <<a, t>> \in UNION { { <<a2, t2>> : t2 \in HttpData_get_formatted(HttpData_new(nm, info, m, a2, b)) } :
                              a2 \in AuthOutcomes(info, cs), b \in BodyOutcomes(info) } }

\* the outcomes of rendering the operations of the methods in the given order
RECURSIVE FormattedDataOutcomes(_, _, _, _)
FormattedDataOutcomes(nm, endpoint_stucture, order, cs) ==
    IF order = <<>> THEN { [formatted_data |-> <<>>, warnings |-> <<>>] }
    ELSE { [formatted_data |-> <<o.text>> \o r.formatted_data, warnings |-> o.warnings \o r.warnings] :
           o \in BlockOutcomes(nm, endpoint_stucture[Head(order)], Head(order), cs),
           r \in FormattedDataOutcomes(nm, endpoint_stucture, Tail(order), cs) }

\* lines 93-101 with the entry of a known file_path replaced instead of extended
endpoints_map_insert_Overwrite(map, nm, formatted_data) ==
    (nm.file_path :> [data |-> formatted_data, names |-> nm]) @@ map

\* lines 93-101 of Application::run: append to the entry of the file_path, or
\* insert a new entry
endpoints_map_insert(map, nm, formatted_data) ==
    IF nm.file_path \in DOMAIN map
    THEN [map EXCEPT ![nm.file_path].data = @ \o formatted_data]
    ELSE (nm.file_path :> [data |-> formatted_data, names |-> nm]) @@ map

\* lines 110-124 with every entry placed as file_path.http
final_file_path_Beside(entry, folders) == entry.names.file_path \o <<".http">>

\* lines 110-124 of Application::run: the placement of one entry
final_file_path(entry, folders) ==
    IF Len(entry.data) > 1
    THEN entry.names.file_path \o <<"/">> \o entry.names.file_name \o <<".http">>
    ELSE IF entry.names.file_path \in folders
         THEN entry.names.file_path \o <<"/">> \o entry.names.file_name \o <<".http">>
         ELSE entry.names.file_path \o <<".http">>

\* the file system as the helpers of utils.rs take and return it
FileSystem == [dirs |-> dirs, files |-> files, calls |-> calls, panicked |-> FALSE]

Init ==
    /\ file \in SchemaFiles
    /\ pc = "new"
    /\ schema = None /\ paths = {} /\ endpoints_map = <<>> /\ folder_map = {} /\ todo = {}
    /\ dirs = { Components(output_path) } /\ files = <<>> /\ calls = <<>>
    /\ NamesIdle /\ TypesIdle /\ HttpIdle

\* OpenApi::new going on with an empty-handed document of one endpoint when
\* the file cannot be read or parsed
OpenApiNew_Lenient ==
    /\ pc = "new"
    /\ LET doc == IF file.kind = "document" THEN file
                  ELSE [kind |-> "document", components |-> None,
                        paths |-> (<<"/", "a", "/", "b">> :> [m \in {"get"} |-> RunOperation])]
       IN  /\ schema' = Some(doc)
           /\ paths' = DOMAIN doc.paths
           /\ pc' = IF DOMAIN doc.paths = {} THEN "done" ELSE "resolve"
    /\ UNCHANGED <<file, endpoints_map, folder_map, todo, dirs, files, calls,
                   namesVars, typesVars, httpVars>>

\* let schema = OpenApi::new(&self.config.file_path): read_to_string(..).unwrap()
\* and the panic on a parse error
OpenApiNew ==
    /\ pc = "new"
    /\ IF file.kind = "document"
       THEN /\ schema' = Some(file)
            /\ paths' = DOMAIN file.paths
            /\ pc' = IF DOMAIN file.paths = {} THEN "done" ELSE "resolve"
       ELSE /\ pc' = "panic"
            /\ UNCHANGED <<schema, paths>>
    /\ UNCHANGED <<file, endpoints_map, folder_map, todo, dirs, files, calls,
                   namesVars, typesVars, httpVars>>

\* one iteration of the loop over schema.paths (lines 84-106), the paths taken
\* in HashMap order
ResolveEndpoint ==
    /\ pc = "resolve"
    /\ \E path_name \in paths :
          LET nm == Names_new(path_name)
              endpoint_stucture == Unwrap(schema).paths[path_name]
          IN  /\ paths' = paths \ {path_name}
              /\ IF nm.outcome = "panic"
                 THEN /\ pc' = "panic"
                      /\ UNCHANGED <<endpoints_map, folder_map, todo, dirs, calls, warnings>>
                 ELSE \E order \in Orders(DOMAIN endpoint_stucture) :
                      \E o \in FormattedDataOutcomes(nm, endpoint_stucture, order,
                                                     Unwrap(schema).components) :
                        LET fs == create_folders(FileSystem, nm.folders, output_path)
                            map == endpoints_map_insert(endpoints_map, nm, o.formatted_data)
                        IN  /\ warnings' = warnings \o o.warnings
                            /\ endpoints_map' = map
                            /\ folder_map' = folder_map \cup { nm.folders[i] : i \in 1..Len(nm.folders) }
                            /\ dirs' = fs.dirs
                            /\ calls' = fs.calls
                            /\ pc' = IF fs.panicked THEN "panic"
                                     ELSE IF paths' = {} THEN "place" ELSE "resolve"
                            /\ todo' = IF pc' = "place" THEN DOMAIN map ELSE todo
    /\ UNCHANGED <<file, schema, files, value, names, typesVars,
                   endpoint_info, method, comps, auth, data, formatted>>

\* one iteration of the loop over endpoints_map (lines 109-130), the entries
\* taken in HashMap order
PlaceFile ==
    /\ pc = "place"
    /\ \E key \in todo :
          LET entry == endpoints_map[key]
              fs1 == IF Len(entry.data) > 1
                     THEN create_folders(FileSystem, <<entry.names.file_path>>, output_path)
                     ELSE FileSystem
              fs2 == IF fs1.panicked THEN fs1
                     ELSE create_file(fs1, join(entry.data, <<NL, NL>>),
                                      output_path \o final_file_path(entry, folder_map))
          IN  /\ todo' = todo \ {key}
              /\ dirs' = fs2.dirs
              /\ files' = fs2.files
              /\ calls' = fs2.calls
              /\ pc' = IF fs2.panicked THEN "panic"
                       ELSE IF todo' = {} THEN "done" ELSE "place"
    /\ UNCHANGED <<file, schema, paths, endpoints_map, folder_map,
                   namesVars, typesVars, httpVars>>

Next == OpenApiNew \/ ResolveEndpoint \/ PlaceFile

Spec == Init /\ [][Next]_vars

(***************************************************************************)
(* Claims on the File Aggregator                                           *)
(***************************************************************************)
\* the endpoints of the parsed document and their resolved names
Endpoints == DOMAIN Unwrap(schema).paths

MethodsOf(p) == DOMAIN Unwrap(schema).paths[p]

\* the request line of the block of one operation
RequestLine(p, m) == <<HttpMethod_from(m), " ">> \o p

InLines(line, text) == \E k \in 1..Len(Lines(text)) : Lines(text)[k] = line

\* the text occurs in the content of a file
IsPartOf(text, content) ==
    \E k \in 0..(Len(content) - Len(text)) : SubSeq(content, k + 1, k + Len(text)) = text

\* the create_file calls of the run, as indexes into calls
FileWrites == { i \in 1..Len(calls) : calls[i].op = "create_file" }

\* the two placements of a file_path
InsideFolder(nm) == output_path \o nm.file_path \o <<"/">> \o nm.file_name \o <<".http">>

BesideFolder(nm) == output_path \o nm.file_path \o <<".http">>

\* q uses the file_path of p as one of its folders: both name the same entry
\* under the output folder
UsesAsFolder(q, p) ==
    \E i \in 1..Len(Names_new(q).folders) :
        Components(Names_new(q).folders[i]) = Components(Names_new(p).file_path)

\* C1: after a run, a file_path that another endpoint uses as a folder has its
\* document inside that folder, as file_path/file_name.http, and not beside it
\* as file_path.http, also when it has a single operation.
C1_CollisionPlacesInsideFolder ==
    pc = "done" =>
        \A p, q \in Endpoints :
            (p # q /\ MethodsOf(p) # {} /\ UsesAsFolder(q, p)) =>
                /\ \E i \in FileWrites : calls[i].path = InsideFolder(Names_new(p))
                /\ \A i \in FileWrites : calls[i].path # BesideFolder(Names_new(p))

\* the paths differ only in the names of their path parameters
DifferOnlyInParameters(p, q) ==
    /\ p # q
    /\ Len(split(p, "/")) = Len(split(q, "/"))
    /\ \A i \in 1..Len(split(p, "/")) :
          \/ split(p, "/")[i] = split(q, "/")[i]
          \/ is_query_param(split(p, "/")[i]) /\ is_query_param(split(q, "/")[i])

\* C2: two endpoints that differ only in path-parameter names and have
\* operations resolve to one file_path; the run writes exactly one document
\* with their blocks, it holds the block of every operation of both and is
\* placed as file_path/file_name.http.
C2_SameFilePathIsOneDocument ==
    pc = "done" =>
        \A p, q \in Endpoints :
            (DifferOnlyInParameters(p, q) /\ MethodsOf(p) # {} /\ MethodsOf(q) # {}) =>
                LET lines  == { RequestLine(p, m) : m \in MethodsOf(p) } \cup
                              { RequestLine(q, m) : m \in MethodsOf(q) }
                    writes == { i \in FileWrites : \E l \in lines : InLines(l, calls[i].data) }
                IN  /\ Names_new(p).file_path = Names_new(q).file_path
                    /\ Cardinality(writes) = 1
                    /\ \A i \in writes :
                          /\ calls[i].path = InsideFolder(Names_new(p))
                          /\ \A l \in lines : InLines(l, calls[i].data)
                          /\ IsPartOf(calls[i].data, files[Components(calls[i].path)])

\* `/a/{a}` and `/a/{b}` with one operation each end up in out/a/a.http
C2_Witness ==
    /\ pc = "done"
    /\ {<<"/", "a", "/", "{", "a", "}">>, <<"/", "a", "/", "{", "b", "}">>} \subseteq Endpoints
    /\ MethodsOf(<<"/", "a", "/", "{", "a", "}">>) = {"get"}
    /\ MethodsOf(<<"/", "a", "/", "{", "b", "}">>) = {"get"}
    /\ \E i \in FileWrites :
          /\ calls[i].path = <<"out", "/", "a", "/", "a", ".http">>
          /\ InLines(<<"GET", " ", "/", "a", "/", "{", "a", "}">>, calls[i].data)
          /\ InLines(<<"GET", " ", "/", "a", "/", "{", "b", "}">>, calls[i].data)

(***************************************************************************)
(* Claims on the Request Block Formatter                                   *)
(***************************************************************************)
\* the lines of the rendered block
BlockLines == Lines(Unwrap(formatted))

HasLine(line) == \E i \in 1..Len(BlockLines) : BlockLines[i] = line

\* the comments of the descriptor, of all four lists
AllComments ==
    LET c == Unwrap(data).comments IN c.query \o c.parameters \o c.body \o c.security

\* the lines of the block that are comment lines of a parameter
ParameterLines == { i \in 1..Len(BlockLines) : starts_with(BlockLines[i], "#  - ") }

\* C11: in every rendered block the request line `METHOD PATH`, METHOD the
\* uppercase method name and PATH the raw endpoint path, is immediately
\* followed by the line `Host: {{HTTP_HOST}}`.
C11_HostLineFollowsRequestLine ==
    formatted # None =>
        \E i \in 1..(Len(BlockLines) - 1) :
            /\ BlockLines[i] = <<HttpMethod_from(method), " ">> \o value
            /\ BlockLines[i + 1] = <<"Host: {{HTTP_HOST}}">>

\* the scheme get_auth_schema returned, when it returned one
ResolvedScheme ==
    IF auth # None /\ Unwrap(auth) # None THEN Unwrap(Unwrap(auth)) ELSE [kind |-> "none"]

\* C12: when the resolved scheme is an ApiKey the block has one comment line
\* for a required parameter of that name (no `?`), and every query, path, body
\* and security parameter of the descriptor has exactly one comment line.
C12_EveryParameterHasOneLine ==
    formatted # None =>
        /\ ResolvedScheme.kind = "ApiKey" =>
              Cardinality({ i \in ParameterLines :
                  BlockLines[i] = <<"#  - ">> \o ResolvedScheme.name \o <<": ", "String">> }) = 1
        /\ Cardinality(ParameterLines) = Len(AllComments)

\* the comment line of a comment with one possible type, with a name suffix
CommentLine(c, suffix) ==
    <<"#  - ">> \o c.name \o suffix \o <<": ">> \o
    <<CHOOSE t \in c.possible_types : TRUE>>

\* C13: the name in a comment line carries `?` exactly when the required flag
\* of the parameter is not true (false or not declared).
C13_OptionalMarkIffNotRequired ==
    formatted # None =>
        \A k \in 1..Len(AllComments) :
            LET c == AllComments[k] IN
            (Cardinality(c.possible_types) = 1 /\ k <= Len(AllComments) - Len(Unwrap(data).comments.security)) =>
                IF c.required = Some(TRUE) THEN HasLine(CommentLine(c, <<>>))
                ELSE HasLine(CommentLine(c, <<"?">>))

\* the operation declares a request body with the application/json media type
DeclaresJsonBody ==
    /\ Unwrap(endpoint_info).request_body # None
    /\ "application/json" \in DOMAIN Unwrap(Unwrap(endpoint_info).request_body).content

\* C14: the block has the content-type line iff the request body declares
\* application/json, and the bearer authorization line iff the resolver
\* returned a BearerToken scheme; an operation with neither and a required
\* path parameter `id` has the comment line `id: String` and neither line.
C14_ContentTypeAndAuthLines ==
    formatted # None =>
        /\ HasLine(<<"Content-Type: application/json">>) <=> DeclaresJsonBody
        /\ HasLine(<<"Authorization: Bearer {{TOKEN}}">>) <=> ResolvedScheme.kind = "BearerToken"
        /\ \A k \in 1..Len(Unwrap(data).comments.parameters) :
              LET c == Unwrap(data).comments.parameters[k] IN
              (c.name = <<"id">> /\ c.required = Some(TRUE)) =>
                  HasLine(<<"#  - ", "id", ": ", "String">>)

\* GET /a/{a} with only the required path parameter id
C14_Witness ==
    /\ formatted # None
    /\ method = "get" /\ value = <<"/", "a", "/", "{", "a", "}">>
    /\ Unwrap(endpoint_info).request_body = None /\ Unwrap(endpoint_info).security = None
    /\ Unwrap(endpoint_info).parameters =
          Some(<<[in |-> <<"path">>, name |-> <<"id">>, required |-> Some(TRUE), default |-> None]>>)
    /\ BlockLines = << <<"# ", "Parameters">>, <<"#  - ", "id", ": ", "String">>, <<"#">>,
                       <<"GET", " ", "/", "a", "/", "{", "a", "}">>, <<"host: {{HTTP_HOST}}">> >>

(***************************************************************************)
(* Claims on the run as a whole                                            *)
(***************************************************************************)
\* C15: when the schema file cannot be read or is not a document, the run
\* aborts with no create_folders and no create_file call made: nothing is
\* created under the output folder.
C15_InputErrorBeforeAnyOutput ==
    file.kind # "document" =>
        /\ pc \in {"new", "panic"}
        /\ calls = <<>> /\ files = <<>> /\ dirs = { Components(output_path) }

\* a run on a file that is not a document has aborted
C15_Witness == pc = "panic" /\ file.kind = "malformed" /\ calls = <<>>

\* the paths of the create_file calls made so far
WrittenPaths == { calls[i].path : i \in FileWrites }

\* the endpoints of the document that resolve to the file_path
EndpointsOf(fp) == { p \in Endpoints : Names_new(p).file_path = fp }

RECURSIVE Operations_count(_)
Operations_count(ps) ==
    IF ps = {} THEN 0
    ELSE LET p == CHOOSE x \in ps : TRUE
         IN  Cardinality(MethodsOf(p)) + Operations_count(ps \ {p})

\* the output paths the document alone determines: a file_path with more than
\* one operation is placed inside its folder, any other beside it
ExpectedPaths ==
    { IF Operations_count(EndpointsOf(Names_new(p).file_path)) > 1
      THEN InsideFolder(Names_new(p)) ELSE BesideFolder(Names_new(p)) : p \in Endpoints }

\* the folders of all endpoints of the document
AllFolders == UNION { { Names_new(p).folders[i] : i \in 1..Len(Names_new(p).folders) } : p \in Endpoints }

\* C16: no create_file call is made before the last endpoint is resolved and the
\* folder set is complete, and the set of output paths a finished run has
\* written is determined by the document, whatever the order the endpoints
\* and the entries were processed in.
C16_PlacementAfterResolution ==
    /\ pc \in {"new", "resolve"} => FileWrites = {}
    /\ FileWrites # {} => (paths = {} /\ folder_map = AllFolders)
    /\ pc = "done" => WrittenPaths = ExpectedPaths

\* a finished run over three endpoints, one of them with two operations
C16_Witness ==
    /\ pc = "done"
    /\ Cardinality(Endpoints) = 3
    /\ Cardinality(WrittenPaths) > 1
    /\ \E p \in Endpoints : Cardinality(MethodsOf(p)) = 2 /\ InsideFolder(Names_new(p)) \in WrittenPaths

\* C17: in a finished run no two create_file calls that write blocks have the
\* same path: every file_path has an output path of its own.
C17_DistinctFilePathsDistinctFiles ==
    pc = "done" =>
        \A i, j \in FileWrites :
            (i # j /\ calls[i].data # <<>> /\ calls[j].data # <<>>) =>
                Components(calls[i].path) # Components(calls[j].path)

\* the create_dir calls before call i of the run
CreatedBefore(i) == { Components(calls[j].path) : j \in { k \in 1..(i - 1) : calls[k].op = "create_dir" } }

\* C18: every directory is created when its parent is the output folder or a
\* directory created earlier in the run, and every create_file call writes into
\* the output folder or a directory created earlier in the run; no call fails.
C18_ParentsBeforeChildren ==
    /\ \A i \in 1..Len(calls) :
          Parent(calls[i].path) \in { Components(output_path) } \cup CreatedBefore(i)
    /\ \A i \in 1..Len(calls) :
          calls[i].op = "create_dir" => Components(calls[i].path) \in dirs
    /\ \A i \in FileWrites : Components(calls[i].path) \in DOMAIN files

\* a finished run that created out/a, then out/a/b, and wrote files into both a
\* folder of the first loop and a folder of the second loop
C18_Witness ==
    /\ pc = "done"
    /\ <<"/", "a", "/", "b", "/", "a">> \in Endpoints
    /\ \E i, j \in 1..Len(calls) :
          /\ i < j
          /\ calls[i].op = "create_dir" /\ Components(calls[i].path) = << <<"out">>, <<"a">> >>
          /\ calls[j].op = "create_dir" /\ Components(calls[j].path) = << <<"out">>, <<"a">>, <<"b">> >>
    /\ \E i \in FileWrites : Len(Parent(calls[i].path)) = 3
    /\ \E i \in FileWrites : Len(Parent(calls[i].path)) = 2

====
